---- MODULE Spec2Model ----
(***************************************************************************)
(* The Scheme environment-diagram interpreter of Grapher.py (Grapher2.py   *)
(* and Grapher3.py hold the same evaluator): the frame store self.envs,    *)
(* the closure registry self.closures, the module-level closure_counter,   *)
(* and eval_expr as a machine whose stack holds the suspended eval_expr    *)
(* activations.  Line numbers refer to src/Grapher.py.                     *)
(***************************************************************************)
EXTENDS Integers, Sequences, FiniteSets, TLC

\* Longest program built from Forms.
MaxForms == 3
\* Number of nested eval_expr activations the host allows before it raises
\* RecursionError (the Python recursion limit, scaled down).
MaxDepth == 7
\* A further interpreter instance is created only while the instances
\* before it have made fewer closures than this.
MaxCarried == 2

(***************************************************************************)
(* Syntax values, as the reader (sexpdata.loads) hands them over.          *)
(***************************************************************************)
Num(k) == [t |-> "num", v |-> k]
Sym(s) == [t |-> "sym", v |-> s]
Lst(items) == [t |-> "list", v |-> items]

IsHead(expr, kw) == expr.v[1].t = "sym" /\ expr.v[1].v = kw

Keywords == {"define", "lambda", "begin", "let", "set!"}

(***************************************************************************)
(* Values.  A closure value is a reference to a Closure object, modelled   *)
(* as its 0-based position in self.closures; likewise an Environment       *)
(* reference is its 0-based position in self.envs.                         *)
(***************************************************************************)
None == [t |-> "none", v |-> 0]
IntV(k) == [t |-> "int", v |-> k]
FloatV(n, d) == [t |-> "float", v |-> <<n, d>>]
ClosureV(c) == [t |-> "closure", v |-> c]
BuiltinV(op) == [t |-> "builtin", v |-> op]

\* Environment.parent of the global environment.
NoParent == -1

Abs(n) == IF n < 0 THEN -n ELSE n

RECURSIVE Gcd(_, _)
Gcd(a, b) == IF b = 0 THEN a ELSE Gcd(b, a % b)

\* A float is kept as a reduced fraction with positive denominator.
MkFloat(n, d) ==
    LET s == IF d < 0 THEN -1 ELSE 1
        g == Gcd(Abs(n), Abs(d))
    IN  FloatV((s * n) \div g, (s * d) \div g)

IsNumber(val) == val.t \in {"int", "float"}
NumOf(val) == IF val.t = "int" THEN val.v ELSE val.v[1]
DenOf(val) == IF val.t = "int" THEN 1 ELSE val.v[2]

(***************************************************************************)
(* Exceptions.                                                             *)
(***************************************************************************)
NoError == [exc |-> "", name |-> "", val |-> None]
NameError(var) == [exc |-> "NameError", name |-> var, val |-> None]
NotCallable(val) == [exc |-> "TypeError", name |-> "non-callable", val |-> val]
NativeTypeError == [exc |-> "TypeError", name |-> "native", val |-> None]
ZeroDivisionError == [exc |-> "ZeroDivisionError", name |-> "", val |-> None]
RecursionError == [exc |-> "RecursionError", name |-> "", val |-> None]

\* The native operations of _initialize_builtins, called as proc(*args).
BuiltinApply(op, args) ==
    IF Len(args) # 2 THEN [ok |-> FALSE, val |-> None, err |-> NativeTypeError]
    ELSE IF ~(IsNumber(args[1]) /\ IsNumber(args[2]))
         THEN [ok |-> FALSE, val |-> None, err |-> NativeTypeError]
    ELSE LET x == args[1]
             y == args[2]
             bothInt == x.t = "int" /\ y.t = "int"
             n == CASE op = "+" -> NumOf(x) * DenOf(y) + NumOf(y) * DenOf(x)
                    [] op = "-" -> NumOf(x) * DenOf(y) - NumOf(y) * DenOf(x)
                    [] op = "*" -> NumOf(x) * NumOf(y)
                    [] op = "/" -> NumOf(x) * DenOf(y)
             d == IF op = "/" THEN DenOf(x) * NumOf(y) ELSE DenOf(x) * DenOf(y)
         IN  IF op = "/" /\ NumOf(y) = 0
             THEN [ok |-> FALSE, val |-> None, err |-> ZeroDivisionError]
             ELSE IF bothInt /\ op # "/"
                  THEN [ok |-> TRUE, val |-> IntV(n), err |-> NoError]
                  ELSE [ok |-> TRUE, val |-> MkFloat(n, d), err |-> NoError]

(***************************************************************************)
(* class Environment                                                       *)
(***************************************************************************)
EmptyBindings == [n \in {} |-> None]

Environment(env_id, parent) ==
    [env_id |-> env_id, parent |-> parent, bindings |-> EmptyBindings]

\* dict assignment  bindings[var] = value
DictSet(b, var, value) ==
    [n \in (DOMAIN b) \cup {var} |-> IF n = var THEN value ELSE b[n]]

\* A lookup in which a binding of an ancestor wins over a local one.
RECURSIVE LookupAncestorFirst(_, _, _)
LookupAncestorFirst(es, r, var) ==
    IF es[r + 1].parent # NoParent /\ LookupAncestorFirst(es, es[r + 1].parent, var).ok
    THEN LookupAncestorFirst(es, es[r + 1].parent, var)
    ELSE IF var \in DOMAIN es[r + 1].bindings
         THEN [ok |-> TRUE, val |-> es[r + 1].bindings[var]]
         ELSE [ok |-> FALSE, val |-> None]

\* Environment.lookup, starting at the frame at position r.
RECURSIVE Lookup(_, _, _)
Lookup(es, r, var) ==
    IF var \in DOMAIN es[r + 1].bindings
    THEN [ok |-> TRUE, val |-> es[r + 1].bindings[var]]
    ELSE IF es[r + 1].parent # NoParent
         THEN Lookup(es, es[r + 1].parent, var)
         ELSE [ok |-> FALSE, val |-> None]

\* An update that always writes into the frame it starts at.
UpdateLocal(es, r, var, value) ==
    [ok |-> TRUE, envs |-> [es EXCEPT ![r + 1].bindings = DictSet(@, var, value)]]

\* Environment.update, starting at the frame at position r.
RECURSIVE Update(_, _, _, _)
Update(es, r, var, value) ==
    IF var \in DOMAIN es[r + 1].bindings
    THEN [ok |-> TRUE, envs |-> [es EXCEPT ![r + 1].bindings = DictSet(@, var, value)]]
    ELSE IF es[r + 1].parent # NoParent
         THEN Update(es, es[r + 1].parent, var, value)
         ELSE [ok |-> FALSE, envs |-> es]

\* A define that rewrites the binding of an ancestor when there is one.
DefineInOwner(es, r, var, value) ==
    IF Update(es, r, var, value).ok
    THEN Update(es, r, var, value).envs
    ELSE [es EXCEPT ![r + 1].bindings = DictSet(@, var, value)]

\* Environment.define on the frame at position r of store es.
Define(es, r, var, value) ==
    [es EXCEPT ![r + 1].bindings = DictSet(@, var, value)]

(***************************************************************************)
(* class Closure                                                           *)
(***************************************************************************)
Closure(id, params, body, env_id) ==
    [id |-> id, params |-> params, body |-> body, env_id |-> env_id]

\* A lambda that keeps only its last body expression.
LambdaBodyLast(body_exprs) ==
    IF body_exprs = <<>> THEN Lst(<<Sym("begin")>>)
    ELSE body_exprs[Len(body_exprs)]

\* The body stored by the lambda form: one expression as is, otherwise
\* the expressions wrapped in (begin ...).
LambdaBody(body_exprs) ==
    IF Len(body_exprs) = 1 THEN body_exprs[1]
    ELSE Lst(<<Sym("begin")>> \o body_exprs)

\* [p.value() for p in params]
RECURSIVE ParamNames(_)
ParamNames(params) ==
    IF params = <<>> THEN <<>>
    ELSE <<params[1].v>> \o ParamNames(Tail(params))

Min(a, b) == IF a < b THEN a ELSE b

(***************************************************************************)
(* Programs.  x, y, z, a, b, v are variables; f, g, h name procedures.     *)
(***************************************************************************)
Def(var, e) == Lst(<<Sym("define"), Sym(var), e>>)
SetB(var, e) == Lst(<<Sym("set!"), Sym(var), e>>)
Lam(params, body_exprs) == Lst(<<Sym("lambda"), Lst(params)>> \o body_exprs)
Let(binding_list, body_exprs) == Lst(<<Sym("let"), Lst(binding_list)>> \o body_exprs)
Bind(var, e) == Lst(<<Sym(var), e>>)
Begin(es) == Lst(<<Sym("begin")>> \o es)
App(op, args) == Lst(<<op>> \o args)

DefX1 == Def("x", Num(1))
DefF == Def("f", Lam(<<>>, <<Sym("x")>>))
LetCallF == Let(<<Bind("x", Num(2))>>, <<App(Sym("f"), <<>>)>>)
LetShadow == Let(<<Bind("x", Num(2))>>, <<Sym("x")>>)
LetSet == Let(<<Bind("x", Num(1)), Bind("y", Num(2))>>, <<SetB("x", Sym("y")), Sym("x")>>)
LetSeesOuter == Let(<<Bind("x", Num(2)), Bind("y", Sym("x"))>>, <<Sym("y")>>)
SetX5 == SetB("x", Num(5))
CallNumber == App(Num(1), <<Def("y", Num(2)), Num(3)>>)
DefG == Def("g", Lam(<<Sym("a"), Sym("b")>>,
                     <<SetB("x", Sym("a")), Lam(<<>>, <<Sym("b")>>)>>))
DefLoop == Def("f", Lam(<<>>, <<App(Sym("f"), <<>>)>>))
DefSetter == Def("f", Lam(<<Sym("v")>>, <<SetB("x", Sym("v"))>>))
DefLocal == Def("f", Lam(<<>>, <<Def("x", Num(2)), Sym("x")>>))
DefSecond == Def("f", Lam(<<Sym("a"), Sym("b")>>, <<Sym("b")>>))

\* The forms from which the generated programs are built.
Forms == {DefX1, Def("x", Num(2)), DefF, LetCallF, LetSet, SetX5, Sym("x")}

Generated == UNION {[1..n -> Forms] : n \in 1..MaxForms}

Scenarios == {
    <<>>,
    <<DefX1, LetShadow, Sym("x")>>,
    <<DefX1, LetSeesOuter>>,
    <<LetSeesOuter>>,
    <<CallNumber, Sym("y")>>,
    <<App(Lst(<<>>), <<Num(1)>>)>>,
    <<App(Let(<<>>, <<Num(4)>>), <<Def("y", Num(2))>>)>>,
    <<DefX1, DefG, Def("h", App(Sym("g"), <<Num(7), Num(8)>>)), App(Sym("h"), <<>>), Sym("x")>>,
    <<DefG, App(App(Sym("g"), <<Num(7), Num(8)>>), <<>>)>>,
    <<DefSecond, App(Sym("f"), <<Num(1)>>)>>,
    <<DefSecond, App(Sym("f"), <<Num(1), Num(2), Def("z", Num(3))>>), Sym("z")>>,
    <<DefLoop, App(Sym("f"), <<>>)>>,
    <<Def("x", App(Sym("+"), <<Num(1), Num(2)>>)), App(Sym("/"), <<Sym("x"), Num(0)>>)>>,
    <<App(Sym("/"), <<Num(2), Num(4)>>), App(Sym("+"), <<Num(1)>>)>>,
    <<App(Sym("-"), <<>>)>>,
    <<DefF, App(Sym("*"), <<Sym("f"), Num(1)>>)>>,
    <<Lst(<<>>), Begin(<<>>), Let(<<>>, <<>>)>>,
    <<Let(<<Bind("f", Lam(<<>>, <<Sym("x")>>))>>, <<Let(<<Bind("x", Num(3))>>, <<App(Sym("f"), <<>>)>>)>>)>>,
    <<Let(<<Bind("x", Num(1))>>, <<Def("y", Num(2)), Sym("y")>>), Sym("y")>>,
    <<DefX1, DefLocal, App(Sym("f"), <<>>), Sym("x")>>,
    <<DefX1, DefSetter, Let(<<Bind("x", Num(9))>>, <<App(Sym("f"), <<Num(5)>>), Sym("x")>>), Sym("x")>>,
    <<Let(<<Bind("a", Def("z", Num(1)))>>, <<Sym("z")>>)>>,
    <<DefX1, Def("x", Num(2)), Sym("x"), Begin(<<Def("x", Num(3)), SetB("x", Num(4)), Sym("x")>>)>>,
    <<Let(<<Bind("x", Num(1))>>, <<Let(<<Bind("y", Num(2))>>, <<SetB("x", Sym("y")), SetB("z", Num(0))>>)>>)>>,
    <<Def("b", Num(5)), DefSecond, App(Sym("f"), <<Num(1)>>)>>,
    <<Def("f", Lam(<<>>, <<>>)), App(Sym("f"), <<>>)>>,
    <<Let(<<Bind("a", Let(<<>>, <<Num(1)>>))>>, <<Sym("a")>>)>>
}

Programs == Scenarios \cup Generated

(***************************************************************************)
(* State.                                                                  *)
(***************************************************************************)
VARIABLES
    exprs,            \* run: the parsed top-level forms
    idx,              \* run: number of top-level forms whose evaluation has started
    phase,            \* "ready", "running", "done" (visualize has run), "failed"
    ctl,              \* the innermost eval_expr activation: evaluating or returning
    stack,            \* the suspended eval_expr activations, outermost first
    envs,             \* self.envs
    closures,         \* self.closures
    closure_counter,  \* the module-level counter
    error,            \* the exception that ended the run
    exported          \* number of times visualize has written the diagram

vars == <<exprs, idx, phase, ctl, stack, envs, closures, closure_counter, error, exported>>

IdleCtl == [mode |-> "idle", expr |-> Lst(<<>>), env |-> 0, val |-> None]
EvalCtl(e, r) == [mode |-> "eval", expr |-> e, env |-> r, val |-> None]
RetCtl(val) == [mode |-> "ret", expr |-> Lst(<<>>), env |-> 0, val |-> val]
RaiseCtl == [mode |-> "raise", expr |-> Lst(<<>>), env |-> 0, val |-> None]

\* The locals of a suspended eval_expr activation; k names the call site
\* at which it is suspended.
Blank == [k |-> "", env |-> 0, var |-> "", args |-> <<>>, i |-> 0,
          let_env |-> 0, call_env |-> 0, proc |-> None,
          evaluated_args |-> <<>>, binding_list |-> <<>>, body_exprs |-> <<>>]

BuiltinNames == {"+", "-", "*", "/"}

\* SchemeInterpreter.__init__ with _initialize_builtins
GlobalEnv ==
    [env_id |-> 0, parent |-> NoParent,
     bindings |-> [n \in BuiltinNames |-> BuiltinV(n)]]

Init ==
    /\ exprs \in Programs
    /\ idx = 0
    /\ phase = "ready"
    /\ ctl = IdleCtl
    /\ stack = <<>>
    /\ envs = <<GlobalEnv>>
    /\ closures = <<>>
    /\ closure_counter = 0
    /\ error = NoError
    /\ exported = 0

(***************************************************************************)
(* SchemeInterpreter                                                       *)
(***************************************************************************)
\* A new_env that leaves the parent of the new frame at its default, None.
new_env_orphan(es, parent_env) == Append(es, Environment(Len(es), NoParent))

\* A new_env that numbers frames from 1.
new_env_from_one(es, parent_env) == Append(es, Environment(Len(es) + 1, parent_env))

\* new_env: the store with the new frame appended; the new frame sits at
\* position Len(es).
new_env(es, parent_env) == Append(es, Environment(Len(es), parent_env))

\* A registry that interns closures: a lambda evaluated again in the same
\* frame adds no record.
new_closure_interned(cs, counter, params, body, env_id) ==
    IF \E i \in 1..Len(cs) :
          cs[i].params = params /\ cs[i].body = body /\ cs[i].env_id = env_id
    THEN cs
    ELSE Append(cs, Closure(counter, params, body, env_id))

\* new_closure: Closure.__init__ takes its id from closure_counter.
new_closure(cs, counter, params, body, env_id) ==
    Append(cs, Closure(counter, params, body, env_id))

\* A closure that records the newest frame of the store instead.
DefiningFrameNewest(es, r) == es[Len(es)].env_id

\* env_id=env.env_id in the lambda form
DefiningFrame(es, r) == es[r + 1].env_id

\* Dynamic scoping: the call frame hangs off the caller's frame.
CallParentOfCaller(cs, proc, env) == env

\* self.envs[proc.env_id], the parent of a call frame (env is the caller's frame)
CallParent(cs, proc, env) == cs[proc.v + 1].env_id

\* let*: a binding expression is evaluated in the child frame.
LetBindEnvChild(env, let_env) == let_env

\* The frame in which a let binding expression is evaluated.
LetBindEnv(env, let_env) == env

\* A test that takes every value but a closure for a native procedure.
IsCallableUnlessClosure(val) == val.t # "closure"

\* callable(proc)
IsCallable(val) == val.t = "builtin"

\* isinstance(proc, Closure)
IsClosure(val) == val.t = "closure"

Top == stack[Len(stack)]

\* A run loop that catches the exception and goes on with the next form.
RaiseCaught(e) ==
    /\ error' = e
    /\ phase' = phase
    /\ stack' = <<>>
    /\ ctl' = RetCtl(None)

\* An exception leaves eval_expr and run; nothing catches it.
Raise(e) ==
    /\ error' = e
    /\ phase' = "failed"
    /\ stack' = <<>>
    /\ ctl' = RaiseCtl

\* The current activation calls eval_expr(e, r) and stays suspended as fr.
Call(fr, e, r) ==
    IF Len(stack) + 2 > MaxDepth
    THEN Raise(RecursionError)
    ELSE /\ stack' = Append(stack, fr)
         /\ ctl' = EvalCtl(e, r)
         /\ UNCHANGED <<error, phase>>

\* The activation on top of the stack, now fr, calls eval_expr(e, r) again.
Continue(fr, e, r) ==
    /\ stack' = [stack EXCEPT ![Len(stack)] = fr]
    /\ ctl' = EvalCtl(e, r)
    /\ UNCHANGED <<error, phase>>

\* The current activation returns val without having called eval_expr.
Leaf(val) ==
    /\ ctl' = RetCtl(val)
    /\ UNCHANGED <<stack, error, phase>>

\* The activation on top of the stack returns val.
Return(val) ==
    /\ stack' = SubSeq(stack, 1, Len(stack) - 1)
    /\ ctl' = RetCtl(val)
    /\ UNCHANGED <<error, phase>>

Evaluating == phase = "running" /\ ctl.mode = "eval"
Returning(k) == phase = "running" /\ ctl.mode = "ret" /\ stack # <<>> /\ Top.k = k
BetweenForms == phase \in {"ready", "running"} /\ ctl.mode \in {"idle", "ret"} /\ stack = <<>>

IsForm(expr, kw) == expr.t = "list" /\ expr.v # <<>> /\ IsHead(expr, kw)
IsApplication(expr) ==
    /\ expr.t = "list" /\ expr.v # <<>>
    /\ \A kw \in Keywords : ~IsHead(expr, kw)

\* run, lines 71-72: the next top-level form is evaluated in the global frame.
RunNext ==
    /\ BetweenForms
    /\ idx < Len(exprs)
    /\ idx' = idx + 1
    /\ phase' = "running"
    /\ ctl' = EvalCtl(exprs[idx + 1], 0)
    /\ UNCHANGED <<exprs, stack, envs, closures, closure_counter, error, exported>>

\* run, line 73: visualize, after the last top-level form has returned.
Visualize ==
    /\ BetweenForms
    /\ idx = Len(exprs)
    /\ exported' = exported + 1
    /\ phase' = "done"
    /\ ctl' = IdleCtl
    /\ UNCHANGED <<exprs, idx, stack, envs, closures, closure_counter, error>>

\* lines 91-92
EvalNumber ==
    /\ Evaluating
    /\ ctl.expr.t = "num"
    /\ Leaf(IntV(ctl.expr.v))
    /\ UNCHANGED <<exprs, idx, envs, closures, closure_counter, exported>>

\* lines 95-96
EvalSymbol ==
    /\ Evaluating
    /\ ctl.expr.t = "sym"
    /\ LET r == Lookup(envs, ctl.env, ctl.expr.v)
       IN  IF r.ok THEN Leaf(r.val) ELSE Raise(NameError(ctl.expr.v))
    /\ UNCHANGED <<exprs, idx, envs, closures, closure_counter, exported>>

\* lines 100-101
EvalEmptyList ==
    /\ Evaluating
    /\ ctl.expr.t = "list" /\ ctl.expr.v = <<>>
    /\ Leaf(None)
    /\ UNCHANGED <<exprs, idx, envs, closures, closure_counter, exported>>

\* lines 107-109
EvalDefine ==
    /\ Evaluating
    /\ IsForm(ctl.expr, "define")
    /\ Call([Blank EXCEPT !.k = "define", !.env = ctl.env, !.var = ctl.expr.v[2].v],
            ctl.expr.v[3], ctl.env)
    /\ UNCHANGED <<exprs, idx, envs, closures, closure_counter, exported>>

\* lines 110-111
RetDefine ==
    /\ Returning("define")
    /\ envs' = Define(envs, Top.env, Top.var, ctl.val)
    /\ Return(ctl.val)
    /\ UNCHANGED <<exprs, idx, closures, closure_counter, exported>>

\* lines 114-129
EvalLambda ==
    /\ Evaluating
    /\ IsForm(ctl.expr, "lambda")
    /\ LET params == ctl.expr.v[2].v
           body_exprs == SubSeq(ctl.expr.v, 3, Len(ctl.expr.v))
       IN  /\ closures' = new_closure(closures, closure_counter, ParamNames(params),
                                      LambdaBody(body_exprs), DefiningFrame(envs, ctl.env))
           /\ closure_counter' = closure_counter + 1
           /\ Leaf(ClosureV(Len(closures)))
    /\ UNCHANGED <<exprs, idx, envs, exported>>

\* lines 132-135, first iteration
EvalBegin ==
    /\ Evaluating
    /\ IsForm(ctl.expr, "begin")
    /\ LET args == Tail(ctl.expr.v)
       IN  IF args = <<>>
           THEN Leaf(None)
           ELSE Call([Blank EXCEPT !.k = "begin", !.env = ctl.env, !.args = args, !.i = 1],
                     args[1], ctl.env)
    /\ UNCHANGED <<exprs, idx, envs, closures, closure_counter, exported>>

\* A begin loop that stops one expression early.
RetBeginStopEarly ==
    /\ Returning("begin")
    /\ IF Top.i + 1 < Len(Top.args)
       THEN Continue([Top EXCEPT !.i = @ + 1], Top.args[Top.i + 1], Top.env)
       ELSE Return(ctl.val)
    /\ UNCHANGED <<exprs, idx, envs, closures, closure_counter, exported>>

\* lines 134-136
RetBegin ==
    /\ Returning("begin")
    /\ IF Top.i < Len(Top.args)
       THEN Continue([Top EXCEPT !.i = @ + 1], Top.args[Top.i + 1], Top.env)
       ELSE Return(ctl.val)
    /\ UNCHANGED <<exprs, idx, envs, closures, closure_counter, exported>>

\* lines 158-160
EvalSet ==
    /\ Evaluating
    /\ IsForm(ctl.expr, "set!")
    /\ Call([Blank EXCEPT !.k = "set!", !.env = ctl.env, !.var = ctl.expr.v[2].v],
            ctl.expr.v[3], ctl.env)
    /\ UNCHANGED <<exprs, idx, envs, closures, closure_counter, exported>>

\* lines 161-162
RetSet ==
    /\ Returning("set!")
    /\ LET r == Update(envs, Top.env, Top.var, ctl.val)
       IN  IF r.ok
           THEN envs' = r.envs /\ Return(ctl.val)
           ELSE envs' = envs /\ Raise(NameError(Top.var))
    /\ UNCHANGED <<exprs, idx, closures, closure_counter, exported>>

\* lines 139-148 (up to the first nested evaluation), or 152-155 when
\* there is no binding
EvalLet ==
    /\ Evaluating
    /\ IsForm(ctl.expr, "let")
    /\ LET binding_list == ctl.expr.v[2].v
           body_exprs == SubSeq(ctl.expr.v, 3, Len(ctl.expr.v))
           let_env == Len(envs)
           fr == [Blank EXCEPT !.env = ctl.env, !.let_env = let_env, !.i = 1,
                               !.binding_list = binding_list, !.body_exprs = body_exprs]
       IN  /\ envs' = new_env(envs, ctl.env)
           /\ IF binding_list # <<>>
              THEN Call([fr EXCEPT !.k = "let_bind"], binding_list[1].v[2],
                        LetBindEnv(ctl.env, let_env))
              ELSE IF body_exprs # <<>>
                   THEN Call([fr EXCEPT !.k = "let_body"], body_exprs[1], let_env)
                   ELSE Leaf(None)
    /\ UNCHANGED <<exprs, idx, closures, closure_counter, exported>>

\* lines 149, then 146-148 for the next binding or 152-155 for the body
RetLetBind ==
    /\ Returning("let_bind")
    /\ envs' = Define(envs, Top.let_env, Top.binding_list[Top.i].v[1].v, ctl.val)
    /\ IF Top.i < Len(Top.binding_list)
       THEN Continue([Top EXCEPT !.i = @ + 1], Top.binding_list[Top.i + 1].v[2],
                     LetBindEnv(Top.env, Top.let_env))
       ELSE IF Top.body_exprs # <<>>
            THEN Continue([Top EXCEPT !.k = "let_body", !.i = 1], Top.body_exprs[1],
                          Top.let_env)
            ELSE Return(None)
    /\ UNCHANGED <<exprs, idx, closures, closure_counter, exported>>

\* lines 153-155
RetLetBody ==
    /\ Returning("let_body")
    /\ IF Top.i < Len(Top.body_exprs)
       THEN Continue([Top EXCEPT !.i = @ + 1], Top.body_exprs[Top.i + 1], Top.let_env)
       ELSE Return(ctl.val)
    /\ UNCHANGED <<exprs, idx, envs, closures, closure_counter, exported>>

\* lines 165-167
EvalApplication ==
    /\ Evaluating
    /\ IsApplication(ctl.expr)
    /\ Call([Blank EXCEPT !.k = "call_op", !.env = ctl.env, !.args = Tail(ctl.expr.v)],
            ctl.expr.v[1], ctl.env)
    /\ UNCHANGED <<exprs, idx, envs, closures, closure_counter, exported>>

\* lines 170-171: the operator is a builtin
RetOperatorBuiltin ==
    /\ Returning("call_op")
    /\ IsCallable(ctl.val)
    /\ IF Top.args = <<>>
       THEN LET r == BuiltinApply(ctl.val.v, <<>>)
            IN  IF r.ok THEN Return(r.val) ELSE Raise(r.err)
       ELSE Continue([Top EXCEPT !.k = "builtin_args", !.proc = ctl.val, !.i = 1],
                     Top.args[1], Top.env)
    /\ UNCHANGED <<exprs, idx, envs, closures, closure_counter, exported>>

\* lines 171-172
RetBuiltinArg ==
    /\ Returning("builtin_args")
    /\ LET evaluated_args == Append(Top.evaluated_args, ctl.val)
       IN  IF Top.i < Len(Top.args)
           THEN Continue([Top EXCEPT !.i = @ + 1, !.evaluated_args = evaluated_args],
                         Top.args[Top.i + 1], Top.env)
           ELSE LET r == BuiltinApply(Top.proc.v, evaluated_args)
                IN  IF r.ok THEN Return(r.val) ELSE Raise(r.err)
    /\ UNCHANGED <<exprs, idx, envs, closures, closure_counter, exported>>

\* lines 175-180 (or 184 when zip yields nothing): the operator is a closure
RetOperatorClosure ==
    /\ Returning("call_op")
    /\ ~IsCallable(ctl.val)
    /\ IsClosure(ctl.val)
    /\ LET proc == closures[ctl.val.v + 1]
           call_env == Len(envs)
           fr == [Top EXCEPT !.proc = ctl.val, !.call_env = call_env, !.i = 1]
       IN  /\ envs' = new_env(envs, CallParent(closures, ctl.val, Top.env))
           /\ IF Min(Len(proc.params), Len(Top.args)) > 0
              THEN Continue([fr EXCEPT !.k = "closure_args"], Top.args[1], Top.env)
              ELSE Continue([fr EXCEPT !.k = "call_body"], proc.body, call_env)
    /\ UNCHANGED <<exprs, idx, closures, closure_counter, exported>>

\* A pairing that pads instead of truncating: once the arguments run out,
\* the remaining parameters are bound to None.
RetClosureArgPad ==
    /\ Returning("closure_args")
    /\ LET proc == closures[Top.proc.v + 1]
           k == Min(Len(proc.params), Len(Top.args))
           bound == Define(envs, Top.call_env, proc.params[Top.i], ctl.val)
           rest == {proc.params[j] : j \in (k + 1)..Len(proc.params)}
           padded == [bound EXCEPT ![Top.call_env + 1].bindings =
                        [n \in (DOMAIN @) \cup rest |->
                            IF n \in DOMAIN @ THEN @[n] ELSE None]]
       IN  IF Top.i < k
           THEN /\ envs' = bound
                /\ Continue([Top EXCEPT !.i = @ + 1], Top.args[Top.i + 1], Top.env)
           ELSE /\ envs' = padded
                /\ Continue([Top EXCEPT !.k = "call_body"], proc.body, Top.call_env)
    /\ UNCHANGED <<exprs, idx, closures, closure_counter, exported>>

\* line 181, then 179-180 for the next pair or 184 for the body
RetClosureArg ==
    /\ Returning("closure_args")
    /\ LET proc == closures[Top.proc.v + 1]
       IN  /\ envs' = Define(envs, Top.call_env, proc.params[Top.i], ctl.val)
           /\ IF Top.i < Min(Len(proc.params), Len(Top.args))
              THEN Continue([Top EXCEPT !.i = @ + 1], Top.args[Top.i + 1], Top.env)
              ELSE Continue([Top EXCEPT !.k = "call_body"], proc.body, Top.call_env)
    /\ UNCHANGED <<exprs, idx, closures, closure_counter, exported>>

\* line 184: the value of the body is the value of the call
RetCallBody ==
    /\ Returning("call_body")
    /\ Return(ctl.val)
    /\ UNCHANGED <<exprs, idx, envs, closures, closure_counter, exported>>

\* line 186
RetOperatorNotCallable ==
    /\ Returning("call_op")
    /\ ~IsCallable(ctl.val)
    /\ ~IsClosure(ctl.val)
    /\ Raise(NotCallable(ctl.val))
    /\ UNCHANGED <<exprs, idx, envs, closures, closure_counter, exported>>

Next ==
    \/ RunNext
    \/ Visualize
    \/ EvalNumber
    \/ EvalSymbol
    \/ EvalEmptyList
    \/ EvalDefine
    \/ RetDefine
    \/ EvalLambda
    \/ EvalBegin
    \/ RetBegin
    \/ EvalSet
    \/ RetSet
    \/ EvalLet
    \/ RetLetBind
    \/ RetLetBody
    \/ EvalApplication
    \/ RetOperatorBuiltin
    \/ RetBuiltinArg
    \/ RetOperatorClosure
    \/ RetClosureArg
    \/ RetCallBody
    \/ RetOperatorNotCallable

Spec == Init /\ [][Next]_vars

\* The interpreter is one sequential program: it keeps taking steps until
\* run returns or an exception ends it.
FairSpec == Spec /\ WF_vars(Next)

\* SchemeInterpreter(), lines 49-60, once more in the same process, after
\* the run of the instance before it has ended (returned, or raised into a
\* caller that goes on), followed by the parse of run's argument (line 70).
\* The new instance has its own envs and closures; closure_counter is a
\* global of the module (line 5) and no constructor touches it.
NewInterpreter ==
    /\ phase \in {"done", "failed"}
    /\ closure_counter < MaxCarried
    /\ exprs' \in Programs
    /\ idx' = 0
    /\ phase' = "ready"
    /\ ctl' = IdleCtl
    /\ stack' = <<>>
    /\ envs' = <<GlobalEnv>>
    /\ closures' = <<>>
    /\ error' = NoError
    /\ exported' = 0
    /\ UNCHANGED closure_counter

ProcessNext ==
    \/ Next
    \/ NewInterpreter

\* One process that creates and runs interpreter instances one after another.
ProcessSpec == Init /\ [][ProcessNext]_vars

(***************************************************************************)
(* Vocabulary of the properties.                                           *)
(***************************************************************************)
\* The frames from position r to the root, nearest first.
RECURSIVE ChainFrom(_, _)
ChainFrom(es, r) ==
    IF es[r + 1].parent = NoParent THEN <<r>>
    ELSE <<r>> \o ChainFrom(es, es[r + 1].parent)

Binds(es, r, var) == var \in DOMAIN es[r + 1].bindings

\* The positions in the chain from r of the frames that bind var.
Owners(es, r, var) ==
    {j \in 1..Len(ChainFrom(es, r)) : Binds(es, ChainFrom(es, r)[j], var)}

SetMin(S) == CHOOSE m \in S : \A n \in S : m <= n
SetMax(S) == CHOOSE m \in S : \A n \in S : m >= n

\* The nearest frame on the chain from r that binds var.
Owner(es, r, var) == ChainFrom(es, r)[SetMin(Owners(es, r, var))]

\* A top-level form has just returned its value.
FormReturned(n) == phase = "running" /\ idx = n /\ ctl.mode = "ret" /\ stack = <<>>

\* The frame in which the activation called by stack[i] was entered.
CalleeEnv(i) == IF i < Len(stack) THEN stack[i + 1].env ELSE ctl.env
CalleeStarted(i) == i < Len(stack) \/ ctl.mode = "eval"

\* Every frame the step found in the store is left as it was, except the
\* frame at position r.
OnlyFrameChanged(r) ==
    /\ Len(envs') = Len(envs)
    /\ \A q \in 0..(Len(envs) - 1) : q # r => envs'[q + 1] = envs[q + 1]

LexicalProgram == <<DefX1, DefF, LetCallF>>
ShadowProgram == <<DefX1, LetShadow, Sym("x")>>

(***************************************************************************)
(* C1: lexical scoping.  The frame created for a closure call has the      *)
(* closure's defining frame as parent, whatever the caller's frame is, so  *)
(* (define x 1) (define f (lambda () x)) (let ((x 2)) (f)) returns 1.      *)
(***************************************************************************)
C1_CallFrameParent ==
    \A i \in 1..Len(stack) :
        stack[i].k \in {"closure_args", "call_body"} =>
            envs[stack[i].call_env + 1].parent = closures[stack[i].proc.v + 1].env_id

C1_LexicalScoping ==
    /\ C1_CallFrameParent
    /\ (exprs = LexicalProgram /\ FormReturned(3)) => ctl.val = IntV(1)

\* f is called from the let frame (position 1) and its call frame hangs
\* off the root.
C1_Witness ==
    /\ exprs = LexicalProgram
    /\ Len(stack) = 2
    /\ stack[2].k = "call_body"
    /\ stack[2].env = 1
    /\ envs[stack[2].call_env + 1].parent = 0
    /\ envs[2].bindings["x"] = IntV(2)

(***************************************************************************)
(* C2: let.  Binding expressions are evaluated in the frame of the let     *)
(* form, from which the child frame cannot be reached; installing a        *)
(* binding changes the child frame only; the body is evaluated in the      *)
(* child frame and the value of its last expression is the value of the    *)
(* let, None when the body is empty.  (define x 1) (let ((x 2)) x) returns *)
(* 2 and x in the root frame stays 1.                                      *)
(***************************************************************************)
C2_State ==
    /\ \A i \in 1..Len(stack) :
        /\ (stack[i].k = "let_bind" /\ CalleeStarted(i)) =>
              /\ CalleeEnv(i) = stack[i].env
              /\ \A j \in 1..Len(ChainFrom(envs, stack[i].env)) :
                    ChainFrom(envs, stack[i].env)[j] # stack[i].let_env
        /\ (stack[i].k = "let_body" /\ CalleeStarted(i)) =>
              CalleeEnv(i) = stack[i].let_env
        /\ stack[i].k \in {"let_bind", "let_body"} =>
              envs[stack[i].let_env + 1].parent = stack[i].env
    /\ (exprs = ShadowProgram /\ FormReturned(2)) =>
          ctl.val = IntV(2) /\ envs[1].bindings["x"] = IntV(1)
    /\ (exprs = ShadowProgram /\ FormReturned(3)) => ctl.val = IntV(1)
    /\ (exprs = <<DefX1, LetSeesOuter>> /\ FormReturned(2)) => ctl.val = IntV(1)
    /\ (exprs = <<LetSeesOuter>> /\ idx = 1) => ~FormReturned(1)
    /\ (exprs = <<Lst(<<>>), Begin(<<>>), Let(<<>>, <<>>)>> /\ FormReturned(3)) =>
          ctl.val = None

C2_Step ==
    /\ Returning("let_bind") =>
          /\ OnlyFrameChanged(Top.let_env)
          /\ envs'[Top.let_env + 1].bindings =
                DictSet(envs[Top.let_env + 1].bindings,
                        Top.binding_list[Top.i].v[1].v, ctl.val)
          /\ (Top.i = Len(Top.binding_list) /\ Top.body_exprs = <<>>) =>
                ctl' = RetCtl(None)
    /\ (Evaluating /\ IsForm(ctl.expr, "let")) =>
          \A q \in 1..Len(envs) : envs'[q] = envs[q]
    /\ (Returning("let_body") /\ Top.i = Len(Top.body_exprs)) =>
          ctl' = RetCtl(ctl.val) /\ Len(stack') = Len(stack) - 1

C2_Let == []C2_State /\ [][C2_Step]_vars

\* The second binding expression of (let ((x 2) (y x)) y) is about to be
\* evaluated in the root frame, where x is 1, with x = 2 already installed
\* in the child frame.
C2_Witness ==
    /\ exprs = <<DefX1, LetSeesOuter>>
    /\ Len(stack) = 1
    /\ stack[1].k = "let_bind"
    /\ stack[1].i = 2
    /\ ctl.mode = "eval"
    /\ ctl.env = 0
    /\ envs[2].bindings = DictSet(EmptyBindings, "x", IntV(2))
    /\ envs[1].bindings["x"] = IntV(1)

(***************************************************************************)
(* C3: set!.  update rewrites the binding of the name in the nearest frame *)
(* of the chain that already binds it and nothing else: no other frame, no *)
(* other name, no new binding; later lookups that reach that frame see the *)
(* new value.  If no frame of the chain binds the name, the run fails with *)
(* NameError(name) and the store is left as it was.                        *)
(***************************************************************************)
SetterProgram ==
    <<DefX1, DefSetter,
      Let(<<Bind("x", Num(9))>>, <<App(Sym("f"), <<Num(5)>>), Sym("x")>>), Sym("x")>>

C3_Step ==
    Returning("set!") =>
        IF Owners(envs, Top.env, Top.var) # {}
        THEN LET o == Owner(envs, Top.env, Top.var)
             IN  /\ OnlyFrameChanged(o)
                 /\ envs'[o + 1].env_id = envs[o + 1].env_id
                 /\ envs'[o + 1].parent = envs[o + 1].parent
                 /\ DOMAIN envs'[o + 1].bindings = DOMAIN envs[o + 1].bindings
                 /\ \A n \in DOMAIN envs[o + 1].bindings :
                       envs'[o + 1].bindings[n] =
                           IF n = Top.var THEN ctl.val ELSE envs[o + 1].bindings[n]
                 /\ error' = NoError
                 /\ ctl' = RetCtl(ctl.val)
        ELSE /\ envs' = envs
             /\ error' = NameError(Top.var)
             /\ phase' = "failed"

C3_State ==
    /\ (exprs = <<LetSet>> /\ FormReturned(1)) =>
          /\ ctl.val = IntV(2)
          /\ DOMAIN envs[1].bindings = BuiltinNames
    /\ (exprs = SetterProgram /\ FormReturned(3)) =>
          /\ ctl.val = IntV(9)
          /\ envs[1].bindings["x"] = IntV(5)
    /\ (exprs = SetterProgram /\ FormReturned(4)) => ctl.val = IntV(5)

C3_Update == []C3_State /\ [][C3_Step]_vars

\* f, called from the let frame that binds x to 9, has just set x in the
\* root frame two frames up its own chain, past no nearer binding.
C3_Witness ==
    /\ exprs = SetterProgram
    /\ idx = 3
    /\ ctl.mode = "ret"
    /\ Len(stack) = 2
    /\ stack[2].k = "call_body"
    /\ envs[1].bindings["x"] = IntV(5)
    /\ envs[2].bindings["x"] = IntV(9)
    /\ ~Binds(envs, stack[2].call_env, "x")

(***************************************************************************)
(* C4: lookup.  An identifier evaluates to its binding in the nearest      *)
(* frame of the chain that binds it; the run fails with NameError(name)    *)
(* exactly when no frame of the chain up to the root binds it; the store   *)
(* is never changed by a lookup.                                           *)
(***************************************************************************)
C4_Step ==
    (Evaluating /\ ctl.expr.t = "sym") =>
        /\ envs' = envs
        /\ closures' = closures
        /\ IF Owners(envs, ctl.env, ctl.expr.v) # {}
           THEN /\ ctl' = RetCtl(envs[Owner(envs, ctl.env, ctl.expr.v) + 1].bindings[ctl.expr.v])
                /\ error' = NoError
                /\ phase' = phase
           ELSE /\ error' = NameError(ctl.expr.v)
                /\ phase' = "failed"

C4_Lookup == [][C4_Step]_vars

\* x has just been found in the let frame, which shadows x of the root.
C4_Witness ==
    /\ exprs = ShadowProgram
    /\ idx = 2
    /\ ctl.mode = "ret"
    /\ ctl.val = IntV(2)
    /\ Len(stack) = 1
    /\ stack[1].k = "let_body"
    /\ envs[1].bindings["x"] = IntV(1)
    /\ envs[2].bindings["x"] = IntV(2)

(***************************************************************************)
(* C5: define.  The define form writes the name into the table of the      *)
(* frame it is evaluated in, also when an ancestor binds the name, leaves  *)
(* every other frame as it was and returns the value.  After top-level     *)
(* defines of literals, an identifier evaluates to the value last defined  *)
(* for it.                                                                 *)
(***************************************************************************)
IsLiteralDefine(e) == IsForm(e, "define") /\ e.v[3].t = "num"

LocalDefineProgram == <<DefX1, DefLocal, App(Sym("f"), <<>>), Sym("x")>>

C5_Step ==
    Returning("define") =>
        /\ OnlyFrameChanged(Top.env)
        /\ envs'[Top.env + 1].env_id = envs[Top.env + 1].env_id
        /\ envs'[Top.env + 1].parent = envs[Top.env + 1].parent
        /\ DOMAIN envs'[Top.env + 1].bindings =
              DOMAIN envs[Top.env + 1].bindings \cup {Top.var}
        /\ \A n \in DOMAIN envs'[Top.env + 1].bindings :
              envs'[Top.env + 1].bindings[n] =
                  IF n = Top.var THEN ctl.val ELSE envs[Top.env + 1].bindings[n]
        /\ ctl' = RetCtl(ctl.val)

C5_State ==
    /\ (/\ idx > 0
        /\ FormReturned(idx)
        /\ exprs[idx].t = "sym"
        /\ \A j \in 1..(idx - 1) : IsLiteralDefine(exprs[j]) \/ exprs[j].t = "sym") =>
          LET defs == {j \in 1..(idx - 1) :
                          IsLiteralDefine(exprs[j]) /\ exprs[j].v[2].v = exprs[idx].v}
          IN  /\ defs # {}
              /\ ctl.val = IntV(exprs[SetMax(defs)].v[3].v)
    /\ (exprs = LocalDefineProgram /\ FormReturned(3)) => ctl.val = IntV(2)
    /\ (exprs = LocalDefineProgram /\ FormReturned(4)) => ctl.val = IntV(1)

C5_Define == []C5_State /\ [][C5_Step]_vars

\* (define x 2) inside f has bound x in the call frame although the root,
\* its parent, binds x to 1.
C5_Witness ==
    /\ exprs = LocalDefineProgram
    /\ idx = 3
    /\ Len(envs) = 2
    /\ envs[2].parent = 0
    /\ Binds(envs, 1, "x")
    /\ envs[2].bindings["x"] = IntV(2)
    /\ envs[1].bindings["x"] = IntV(1)

(***************************************************************************)
(* C6: the closure registry.  Every lambda evaluation appends one closure  *)
(* whose env_id is the handle of the frame the lambda form is evaluated    *)
(* in; ids are not repeated in the registry; no step changes or removes a  *)
(* closure already there.                                                  *)
(***************************************************************************)
CapturingProgram ==
    <<DefX1, DefG, Def("h", App(Sym("g"), <<Num(7), Num(8)>>)), App(Sym("h"), <<>>), Sym("x")>>

C6_State ==
    /\ \A i, j \in 1..Len(closures) : closures[i].id = closures[j].id => i = j
    /\ \A i \in 1..Len(closures) : closures[i].env_id \in 0..(Len(envs) - 1)
    /\ (exprs = CapturingProgram /\ FormReturned(4)) =>
          /\ ctl.val = IntV(8)
          /\ closures[2].env_id = 1
          /\ Len(envs) = 3

C6_Step ==
    /\ Len(closures') >= Len(closures)
    /\ \A i \in 1..Len(closures) : closures'[i] = closures[i]
    /\ (Evaluating /\ IsForm(ctl.expr, "lambda")) =>
          /\ Len(closures') = Len(closures) + 1
          /\ closures'[Len(closures')].env_id = envs[ctl.env + 1].env_id
          /\ closures'[Len(closures')].params = ParamNames(ctl.expr.v[2].v)
          /\ ctl' = RetCtl(ClosureV(Len(closures)))
    /\ ~(Evaluating /\ IsForm(ctl.expr, "lambda")) => closures' = closures

C6_ClosureRegistry == []C6_State /\ [][C6_Step]_vars

\* The closure made inside g's call frame (position 1) is being called
\* from the root: it records frame 1, and frame 2 is its call frame.
C6_Witness ==
    /\ exprs = CapturingProgram
    /\ idx = 4
    /\ Len(closures) = 2
    /\ closures[2].env_id = 1
    /\ Len(stack) = 1
    /\ stack[1].k = "call_body"
    /\ stack[1].env = 0
    /\ stack[1].call_env = 2

(***************************************************************************)
(* C7: calling a value that is neither a native procedure nor a closure    *)
(* fails with TypeError (non-callable) carrying the value; that step adds  *)
(* no frame and no closure and starts no evaluation, so no argument        *)
(* expression is evaluated.                                                *)
(***************************************************************************)
C7_Step ==
    (Returning("call_op") /\ ctl.val.t \notin {"builtin", "closure"}) =>
        /\ error' = NotCallable(ctl.val)
        /\ phase' = "failed"
        /\ ctl'.mode # "eval"
        /\ envs' = envs
        /\ closures' = closures

C7_State ==
    (exprs = <<CallNumber, Sym("y")>> /\ phase = "failed") =>
        /\ error = NotCallable(IntV(1))
        /\ envs = <<GlobalEnv>>
        /\ idx = 1

C7_NotCallable == []C7_State /\ [][C7_Step]_vars

\* (1 (define y 2) 3) has failed and y is unbound.
C7_Witness ==
    /\ exprs = <<CallNumber, Sym("y")>>
    /\ phase = "failed"
    /\ error = NotCallable(IntV(1))
    /\ ~Binds(envs, 0, "y")

(***************************************************************************)
(* C8: no recovery.  Once an exception is raised the run takes no further  *)
(* step and visualize is never called; visualize is called once, after the *)
(* last top-level form has returned, the forms having been evaluated in    *)
(* order in the root frame; every run ends in one of the two ways.         *)
(***************************************************************************)
C8_State ==
    /\ error # NoError <=> phase = "failed"
    /\ exported \in {0, 1}
    /\ exported = 1 <=> phase = "done"
    /\ phase = "done" => idx = Len(exprs) /\ error = NoError /\ stack = <<>>
    /\ phase = "failed" => exported = 0

C8_Step ==
    /\ phase \in {"failed", "done"} => vars' = vars
    /\ idx' # idx =>
          /\ idx' = idx + 1
          /\ stack = <<>>
          /\ ctl.mode \in {"idle", "ret"}
          /\ ctl' = EvalCtl(exprs[idx'], 0)
    /\ exported' # exported =>
          /\ idx = Len(exprs)
          /\ stack = <<>>
          /\ ctl.mode \in {"idle", "ret"}
          /\ error = NoError

C8_NoRecovery ==
    /\ []C8_State
    /\ [][C8_Step]_vars
    /\ <>(phase \in {"done", "failed"})

\* An unbound identifier inside a let body has ended the run with a
\* top-level form still to come.
C8_Witness ==
    /\ phase = "failed"
    /\ error.exc = "NameError"
    /\ idx < Len(exprs)
    /\ Len(envs) > 1
    /\ exported = 0

(***************************************************************************)
(* C9: parent chains.  The root is the only frame without parent; the      *)
(* parent of any other frame was in the store before it and has a smaller  *)
(* handle; the chain from any frame reaches the root without repeating a   *)
(* frame; the parent of a frame never changes.                             *)
(***************************************************************************)
C9_State ==
    /\ \A i \in 1..Len(envs) :
          IF i = 1 THEN envs[i].parent = NoParent
          ELSE /\ envs[i].parent \in 0..(i - 2)
               /\ envs[envs[i].parent + 1].env_id < envs[i].env_id
    /\ \A r \in 0..(Len(envs) - 1) :
          LET chain == ChainFrom(envs, r)
          IN  /\ Len(chain) <= Len(envs)
              /\ chain[Len(chain)] = 0
              /\ \A a, b \in 1..Len(chain) : chain[a] = chain[b] => a = b

C9_Step ==
    /\ Len(envs') \in {Len(envs), Len(envs) + 1}
    /\ \A i \in 1..Len(envs) : envs'[i].parent = envs[i].parent
    /\ Len(envs') = Len(envs) + 1 => envs'[Len(envs')].parent \in 0..(Len(envs) - 1)

C9_ParentChain == []C9_State /\ [][C9_Step]_vars

\* The call frame of h hangs off the call frame of g, which hangs off the
\* root.
C9_Witness ==
    /\ exprs = CapturingProgram
    /\ Len(envs) = 3
    /\ ChainFrom(envs, 2) = <<2, 1, 0>>

(***************************************************************************)
(* C10: the frame store is append-only.  The frame at position i has       *)
(* handle i; a step appends at most one frame and keeps the handle, parent *)
(* and bound names of every frame already there; every closure's env_id is *)
(* the handle of a frame of the store, the one its lambda form was         *)
(* evaluated in.                                                           *)
(***************************************************************************)
C10_State ==
    /\ \A i \in 1..Len(envs) : envs[i].env_id = i - 1
    /\ \A c \in 1..Len(closures) :
          /\ closures[c].env_id \in 0..(Len(envs) - 1)
          /\ envs[closures[c].env_id + 1].env_id = closures[c].env_id

C10_Step ==
    /\ Len(envs') \in {Len(envs), Len(envs) + 1}
    /\ \A i \in 1..Len(envs) :
          /\ envs'[i].env_id = envs[i].env_id
          /\ envs'[i].parent = envs[i].parent
          /\ DOMAIN envs[i].bindings \subseteq DOMAIN envs'[i].bindings
    /\ Len(envs') = Len(envs) + 1 => envs'[Len(envs')].env_id = Len(envs)
    /\ (Evaluating /\ IsForm(ctl.expr, "lambda")) =>
          closures'[Len(closures')].env_id = ctl.env

C10_AppendOnlyStore == []C10_State /\ [][C10_Step]_vars

\* The scoping program has run to its end: three frames numbered 0, 1, 2
\* and f's closure still naming the root.
C10_Witness ==
    /\ exprs = LexicalProgram
    /\ phase = "done"
    /\ Len(envs) = 3
    /\ envs[3].env_id = 2
    /\ closures[1].env_id = 0

(***************************************************************************)
(* C11: record creation is exact and monotonic.  The step that starts a    *)
(* let form and the step that applies a closure each add exactly one frame *)
(* and no closure; the step that evaluates a lambda form adds exactly one  *)
(* closure and no frame; every other step (number, identifier, empty list, *)
(* define, set!, begin, builtin application, and the later steps of let    *)
(* and call) leaves both counts as they were; neither count ever           *)
(* decreases.  So a run of the capturing program, two calls and two        *)
(* lambdas, ends with three frames and two closures.                       *)
(***************************************************************************)
BuiltinProgram ==
    <<Def("x", App(Sym("+"), <<Num(1), Num(2)>>)), App(Sym("/"), <<Sym("x"), Num(0)>>)>>

EmptyFormsProgram == <<Lst(<<>>), Begin(<<>>), Let(<<>>, <<>>)>>

C11_Step ==
    LET frames == Len(envs') - Len(envs)
        records == Len(closures') - Len(closures)
        startsLet == Evaluating /\ IsForm(ctl.expr, "let")
        appliesClosure == Returning("call_op") /\ IsClosure(ctl.val)
        makesLambda == Evaluating /\ IsForm(ctl.expr, "lambda")
    IN  /\ frames >= 0
        /\ records >= 0
        /\ startsLet => frames = 1 /\ records = 0
        /\ appliesClosure => frames = 1 /\ records = 0
        /\ makesLambda => frames = 0 /\ records = 1
        /\ ~(startsLet \/ appliesClosure \/ makesLambda) => frames = 0 /\ records = 0

C11_State ==
    /\ (exprs = CapturingProgram /\ phase = "done") =>
          Len(envs) = 3 /\ Len(closures) = 2
    /\ (exprs = EmptyFormsProgram /\ phase = "done") =>
          Len(envs) = 2 /\ Len(closures) = 0
    /\ (exprs = BuiltinProgram /\ phase = "failed") =>
          Len(envs) = 1 /\ Len(closures) = 0
    /\ (exprs = <<DefF, DefF>> /\ phase = "done") =>
          Len(envs) = 1 /\ Len(closures) = 2

C11_RecordCreation == []C11_State /\ [][C11_Step]_vars

\* The capturing program has run to its end: the two calls added a frame
\* each to the root, the two lambdas a closure each.
C11_Witness ==
    /\ exprs = CapturingProgram
    /\ phase = "done"
    /\ Len(envs) = 3
    /\ Len(closures) = 2
    /\ closure_counter = 2

(***************************************************************************)
(* C12: (begin e1 ... en) evaluates e1, then e2, ... then en, each once    *)
(* and each in the frame the begin itself is evaluated in, and returns the *)
(* value of en; the begin adds nothing of its own to the stores, and an    *)
(* empty begin returns None and changes nothing.  So, with x bound at the  *)
(* root, (begin (define x 3) (set! x 4) x) returns 4.                      *)
(***************************************************************************)
BeginProgram ==
    <<DefX1, Def("x", Num(2)), Sym("x"),
      Begin(<<Def("x", Num(3)), SetB("x", Num(4)), Sym("x")>>)>>

C12_Step ==
    /\ (Evaluating /\ IsForm(ctl.expr, "begin")) =>
          /\ UNCHANGED <<envs, closures, closure_counter>>
          /\ IF Len(ctl.expr.v) = 1
             THEN /\ ctl' = RetCtl(None)
                  /\ UNCHANGED <<stack, error, phase>>
             ELSE error' = NoError =>
                  /\ ctl' = EvalCtl(ctl.expr.v[2], ctl.env)
                  /\ Len(stack') = Len(stack) + 1
                  /\ stack'[Len(stack')].k = "begin"
                  /\ stack'[Len(stack')].i = 1
                  /\ stack'[Len(stack')].env = ctl.env
                  /\ stack'[Len(stack')].args = Tail(ctl.expr.v)
    /\ Returning("begin") =>
          /\ UNCHANGED <<envs, closures, closure_counter, error, phase>>
          /\ IF Top.i < Len(Top.args)
             THEN /\ ctl' = EvalCtl(Top.args[Top.i + 1], Top.env)
                  /\ stack' = [stack EXCEPT ![Len(stack)].i = Top.i + 1]
             ELSE /\ ctl' = RetCtl(ctl.val)
                  /\ stack' = SubSeq(stack, 1, Len(stack) - 1)

C12_State ==
    /\ \A i \in 1..Len(stack) :
          stack[i].k = "begin" =>
              /\ stack[i].i \in 1..Len(stack[i].args)
              /\ CalleeStarted(i) => CalleeEnv(i) = stack[i].env
              /\ (i = Len(stack) /\ ctl.mode = "eval") =>
                    ctl.expr = stack[i].args[stack[i].i]
    /\ (exprs = BeginProgram /\ FormReturned(4)) =>
          /\ ctl.val = IntV(4)
          /\ envs[1].bindings["x"] = IntV(4)
          /\ Len(envs) = 1
    /\ (exprs = EmptyFormsProgram /\ FormReturned(2)) =>
          /\ ctl.val = None
          /\ Len(envs) = 1
          /\ DOMAIN envs[1].bindings = BuiltinNames

C12_Begin == []C12_State /\ [][C12_Step]_vars

\* The begin of three forms has returned: the define ran, then the set!
\* saw it, then x read 4.
C12_Witness ==
    /\ exprs = BeginProgram
    /\ FormReturned(4)
    /\ ctl.val = IntV(4)
    /\ Binds(envs, 0, "x")
    /\ envs[1].bindings["x"] = IntV(4)

(***************************************************************************)
(* C13: in a closure application (op arg1 ... argn) every argument         *)
(* expression is evaluated, in the caller's frame and from left to right,  *)
(* whatever the number of parameters of the closure: after the operator    *)
(* arg1 is evaluated when there is one, after argi comes arg(i+1) when     *)
(* there is one, and only after argn does the body start.  So in           *)
(* (define f (lambda (a b) b)) (f 1 2 (define z 3)) z the third argument   *)
(* binds z at the root and the last form does not fail.                    *)
(***************************************************************************)
SurplusArgumentProgram ==
    <<DefSecond, App(Sym("f"), <<Num(1), Num(2), Def("z", Num(3))>>), Sym("z")>>

C13_Step ==
    /\ (Returning("call_op") /\ IsClosure(ctl.val) /\ Top.args # <<>>) =>
          ctl' = EvalCtl(Top.args[1], Top.env)
    /\ (Returning("closure_args") /\ Top.i < Len(Top.args)) =>
          ctl' = EvalCtl(Top.args[Top.i + 1], Top.env)

C13_State ==
    /\ \A i \in 1..Len(stack) :
          (stack[i].k = "closure_args" /\ CalleeStarted(i)) =>
              CalleeEnv(i) = stack[i].env
    /\ (exprs = SurplusArgumentProgram /\ idx = 3) => phase # "failed"

C13_EveryArgumentEvaluated == []C13_State /\ [][C13_Step]_vars

(***************************************************************************)
(* C14: the child frame of a let is allocated only after all its binding   *)
(* expressions have been evaluated in the outer frame: the step that       *)
(* starts a let with bindings adds no frame, a frame created while a       *)
(* binding expression is being evaluated gets a smaller handle than the    *)
(* let's child frame, and a let whose binding expression fails leaves no   *)
(* child frame in the store.                                               *)
(***************************************************************************)
C14_Step ==
    /\ (Evaluating /\ IsForm(ctl.expr, "let") /\ ctl.expr.v[2].v # <<>>) =>
          Len(envs') = Len(envs)
    /\ Len(envs') = Len(envs) + 1 =>
          \A i \in 1..Len(stack) :
              stack[i].k = "let_bind" => envs'[Len(envs')].env_id < stack[i].let_env

C14_State ==
    (exprs = <<LetSeesOuter>> /\ phase = "failed") => Len(envs) = 1

C14_ChildFrameAfterBindings == []C14_State /\ [][C14_Step]_vars

(***************************************************************************)
(* C15: an arity mismatch in a closure application is not an error.  The   *)
(* parameters p1..pm (distinct names) and the n arguments are paired by    *)
(* position: the call frame starts empty, the i-th pair binds pi to the    *)
(* value of argi, and the body starts right after pair k = min(m, n), when *)
(* the call frame's own table is exactly {p1..pk}.  A parameter beyond k   *)
(* is not bound in the call frame: with f = (lambda (a b) b), (f 1) reads  *)
(* b from the defining-frame chain when the root binds b, and fails with   *)
(* NameError when nothing does.                                            *)
(***************************************************************************)
Distinct(seq) == \A i, j \in 1..Len(seq) : seq[i] = seq[j] => i = j

MissingArgumentProgram == <<DefSecond, App(Sym("f"), <<Num(1)>>)>>
MissingArgumentBoundProgram == <<Def("b", Num(5)), DefSecond, App(Sym("f"), <<Num(1)>>)>>

C15_Step ==
    /\ (Returning("call_op") /\ IsClosure(ctl.val)) =>
          LET proc == closures[ctl.val.v + 1]
              k == Min(Len(proc.params), Len(Top.args))
          IN  /\ error' = NoError /\ phase' = phase
              /\ envs'[Len(envs) + 1].bindings = EmptyBindings
              /\ IF k = 0
                 THEN /\ ctl' = EvalCtl(proc.body, Len(envs))
                      /\ stack'[Len(stack')].k = "call_body"
                 ELSE /\ ctl' = EvalCtl(Top.args[1], Top.env)
                      /\ stack'[Len(stack')].k = "closure_args"
    /\ Returning("closure_args") =>
          LET proc == closures[Top.proc.v + 1]
              k == Min(Len(proc.params), Len(Top.args))
              own == envs[Top.call_env + 1].bindings
              own2 == envs'[Top.call_env + 1].bindings
          IN  /\ error' = NoError /\ phase' = phase
              /\ Top.i \in 1..k
              /\ Distinct(proc.params) =>
                    /\ DOMAIN own2 = {proc.params[j] : j \in 1..Top.i}
                    /\ own2[proc.params[Top.i]] = ctl.val
                    /\ \A j \in 1..(Top.i - 1) : own2[proc.params[j]] = own[proc.params[j]]
              /\ IF Top.i = k
                 THEN /\ ctl' = EvalCtl(proc.body, Top.call_env)
                      /\ stack'[Len(stack')].k = "call_body"
                 ELSE /\ ctl' = EvalCtl(Top.args[Top.i + 1], Top.env)
                      /\ stack'[Len(stack')].k = "closure_args"

C15_State ==
    /\ (exprs = MissingArgumentProgram /\ phase = "failed") =>
          /\ error = NameError("b")
          /\ Len(envs) = 2
          /\ DOMAIN envs[2].bindings = {"a"}
          /\ envs[2].bindings["a"] = IntV(1)
    /\ (exprs = MissingArgumentBoundProgram /\ FormReturned(3)) =>
          /\ ctl.val = IntV(5)
          /\ Len(envs) = 2
          /\ DOMAIN envs[2].bindings = {"a"}
    /\ (exprs = SurplusArgumentProgram /\ FormReturned(2)) =>
          /\ ctl.val = IntV(2)
          /\ Len(envs) = 2
          /\ envs[2].bindings = [n \in {"a", "b"} |-> IF n = "a" THEN IntV(1) ELSE IntV(2)]

C15_ArityMismatch == []C15_State /\ [][C15_Step]_vars

\* (f 1) with f = (lambda (a b) b) has returned 5: the call frame binds a
\* only, and b was read from the root.
C15_Witness ==
    /\ exprs = MissingArgumentBoundProgram
    /\ FormReturned(3)
    /\ ctl.val = IntV(5)
    /\ Len(envs) = 2
    /\ DOMAIN envs[2].bindings = {"a"}
    /\ envs[2].parent = 0

(***************************************************************************)
(* C16: a closure stores exactly one body expression.  A lambda with one   *)
(* body expression stores it as it is; a lambda with several, or with      *)
(* none, stores (begin body1 ... bodyn).  A call evaluates the stored body *)
(* in the call frame and returns its value, so the body expressions run in *)
(* order and the last value is the result: g = (lambda (a b) (set! x a)    *)
(* (lambda () b)) called as (g 7 8) sets x to 7 and returns a closure, and *)
(* ((lambda ())) returns None.                                             *)
(***************************************************************************)
ZeroBodyProgram == <<Def("f", Lam(<<>>, <<>>)), App(Sym("f"), <<>>)>>

C16_Step ==
    /\ (Evaluating /\ IsForm(ctl.expr, "lambda")) =>
          LET body_exprs == SubSeq(ctl.expr.v, 3, Len(ctl.expr.v))
              stored == closures'[Len(closures')].body
          IN  /\ Len(closures') = Len(closures) + 1
              /\ IF Len(body_exprs) = 1
                 THEN stored = body_exprs[1]
                 ELSE stored = Begin(body_exprs)
    /\ (phase = "running" /\ stack # <<>> /\ Top.k # "call_body"
        /\ Len(stack') = Len(stack) /\ stack'[Len(stack')].k = "call_body") =>
          LET fr == stack'[Len(stack')]
          IN  ctl' = EvalCtl(closures[fr.proc.v + 1].body, fr.call_env)
    /\ Returning("call_body") =>
          /\ ctl' = RetCtl(ctl.val)
          /\ stack' = SubSeq(stack, 1, Len(stack) - 1)
          /\ UNCHANGED <<envs, closures>>

C16_State ==
    /\ \A c \in 1..Len(closures) : closures[c].body.t \in {"num", "sym", "list"}
    /\ (exprs = LexicalProgram /\ phase = "done") => closures[1].body = Sym("x")
    /\ (exprs = CapturingProgram /\ FormReturned(3)) =>
          /\ closures[1].body = Begin(<<SetB("x", Sym("a")), Lam(<<>>, <<Sym("b")>>)>>)
          /\ envs[1].bindings["x"] = IntV(7)
          /\ ctl.val = ClosureV(1)
          /\ closures[2].body = Sym("b")
    /\ (exprs = ZeroBodyProgram /\ FormReturned(2)) =>
          /\ closures[1].body = Begin(<<>>)
          /\ ctl.val = None
          /\ envs[2].bindings = EmptyBindings

C16_ClosureBody == []C16_State /\ [][C16_Step]_vars

\* (define h (g 7 8)) has returned: the two body expressions of g ran in
\* order, the set! first, and the value is the closure made by the second.
C16_Witness ==
    /\ exprs = CapturingProgram
    /\ FormReturned(3)
    /\ closures[1].body = Begin(<<SetB("x", Sym("a")), Lam(<<>>, <<Sym("b")>>)>>)
    /\ envs[1].bindings["x"] = IntV(7)
    /\ ctl.val = ClosureV(1)

(***************************************************************************)
(* C17: closure handles are scoped to one interpreter instance.  In every  *)
(* reachable state of a process that creates and runs several interpreter  *)
(* instances, the closure at position i of the current instance's registry *)
(* has handle i, and the next handle is the size of that registry; so the  *)
(* records of a run do not depend on the runs before it.                   *)
(***************************************************************************)
C17_HandlesPerInstance ==
    /\ \A i \in 1..Len(closures) : closures[i].id = i - 1
    /\ closure_counter = Len(closures)

====
